---------------------------- MODULE Spec2Model ----------------------------
(***************************************************************************)
(* Model of scripts/analyze-required-expressions.py: the required-tag      *)
(* dependency closure resolver, the composite-dependency loader, the       *)
(* per-module expression extractor, the pattern classifier and the         *)
(* aggregator/reporter of main().                                          *)
(*                                                                         *)
(* Text (tag names, expressions, paths) is a tuple of one-character        *)
(* strings, so that normalisation, substring tests and sorting are         *)
(* computed character by character as the code computes them.             *)
(***************************************************************************)
EXTENDS Integers, Sequences, FiniteSets, TLC

VARIABLES
    pc,                \* position of the program
    exc,               \* the uncaught exception that ended the run, or "none"
    abort_site,        \* the input being read when the exception was raised
    composite_file,    \* docs/analysis/expressions/composite-dependencies.json
    load_calls,        \* calls of load_composite_dependencies so far
    gen_calls,         \* runs of ./scripts/composite-dependencies.sh so far
    last_gen,          \* the outcome of the last generator run
    required_tags,     \* the set being built by load_required_tags_with_dependencies
    seeds,             \* required_tags as it stood at line 79 ("directly required")
    composite_deps,    \* tag -> list of dependency tags
    added,             \* the closure loop's flag
    iterations,        \* the closure loop's pass counter
    current_tags,      \* the tags of this pass's snapshot not scanned yet
    run,               \* 1: first resolution, 2: resolution re-run on its own output
    first_result,      \* the set the first resolution returned
    all_priority_tags, \* main(): the resolver's return value
    module_paths,      \* main(): flattened module list
    module_idx,        \* main(): index of the module being processed
    result,            \* the extractor subprocess's outcome for the current module
    expressions,       \* main(): extract_module_expressions' return value
    all_expressions,   \* main(): kind -> ordered mapping text -> list of tags
    output,            \* main(): the report
    cls_items,         \* analyze_expression_patterns: its argument
    cls_idx,           \* analyze_expression_patterns: index of the next item
    patterns,          \* analyze_expression_patterns: category -> list of tags
    cls_result         \* analyze_expression_patterns: its return value

vars == << pc, exc, abort_site, composite_file, load_calls, gen_calls, last_gen,
           required_tags, seeds, composite_deps, added, iterations, current_tags,
           run, first_result, all_priority_tags, module_paths, module_idx,
           result, expressions, all_expressions, output,
           cls_items, cls_idx, patterns, cls_result >>

resolveVars == << composite_file, load_calls, gen_calls, last_gen, required_tags,
                  seeds, composite_deps, added, iterations, current_tags, run,
                  first_result, all_priority_tags >>
mainVars == << module_paths, module_idx, result, expressions, all_expressions,
               output >>
clsVars == << cls_items, cls_idx, patterns, cls_result >>

(***************************************************************************)
(* Bounds of the model.                                                    *)
(***************************************************************************)
NTags == 12          \* tags of the longest dependency chain
MaxGenCalls == 3     \* generator runs explored in one call of the loader

(***************************************************************************)
(* Program constants.                                                      *)
(***************************************************************************)
MaxPasses == 10      \* while added and iterations < 10
TopN == 20           \* expr_list[:20], sorted(shared ...)[:20]
ComplexParens == 3   \* expr.count('(') > 3
ComplexLen == 100    \* len(expr) > 100

(***************************************************************************)
(* Characters and text.                                                    *)
(***************************************************************************)
UpperCs == << "A", "B", "C", "D", "E", "F", "G", "H", "I", "J", "K", "L", "M",
              "N", "O", "P", "Q", "R", "S", "T", "U", "V", "W", "X", "Y", "Z" >>
LowerCs == << "a", "b", "c", "d", "e", "f", "g", "h", "i", "j", "k", "l", "m",
              "n", "o", "p", "q", "r", "s", "t", "u", "v", "w", "x", "y", "z" >>
DigitCs == << "0", "1", "2", "3", "4", "5", "6", "7", "8", "9" >>

\* The printable ASCII characters in code-point order, from space on (the
\* backslash and the backquote left out: no text of the model holds one).
Ascii == << " ", "!", "\"", "#", "$", "%", "&", "'", "(", ")", "*", "+", ",",
            "-", ".", "/" >> \o DigitCs \o << ":", ";", "<", "=", ">", "?", "@" >>
         \o UpperCs \o << "[", "]", "^", "_" >> \o LowerCs
         \o << "{", "|", "}", "~" >>

Range(s) == { s[i] : i \in DOMAIN s }

\* the rank of a character in code-point order
Code(c) == CHOOSE i \in DOMAIN Ascii : Ascii[i] = c

\* str.lower() on one character
ToLower(c) ==
    IF \E i \in DOMAIN UpperCs : UpperCs[i] = c
    THEN LowerCs[CHOOSE i \in DOMAIN UpperCs : UpperCs[i] = c]
    ELSE c

\* the characters the pattern [^a-z0-9] leaves in place
LowerAlnum == Range(LowerCs) \cup Range(DigitCs)
IsLowerAlnum(c) == c \in LowerAlnum

\* re.sub(r'[^a-z0-9]', '', tag.lower())
normalize_tag_name(tag) ==
    SelectSeq([i \in DOMAIN tag |-> ToLower(tag[i])], IsLowerAlnum)

\* sub in s, for texts
Contains(sub, s) ==
    \E i \in 0 .. (Len(s) - Len(sub)) :
        \A j \in 1 .. Len(sub) : s[i + j] = sub[j]

\* c in s, for one character
HasChar(c, s) == \E i \in DOMAIN s : s[i] = c

\* s.count(c)
CountChar(c, s) == Cardinality({ i \in DOMAIN s : s[i] = c })

\* a < b for texts, as Python compares str: by code point, then by length
RECURSIVE StrLess(_, _)
StrLess(a, b) ==
    IF a = << >> THEN b # << >>
    ELSE IF b = << >> THEN FALSE
    ELSE IF a[1] # b[1] THEN Code(a[1]) < Code(b[1])
    ELSE StrLess(Tail(a), Tail(b))

\* The name of the i-th tag of a dependency chain: "A", "B", "C", ...
Tag(i) == << UpperCs[i] >>

(***************************************************************************)
(* load_composite_dependencies                                             *)
(***************************************************************************)
NoTags == [t \in {} |-> [require |-> << >>, desire |-> << >>]]
NoDeps == [t \in {} |-> << >>]

FileMissing == [status |-> "missing", tags |-> NoTags]
FileUnparsable == [status |-> "unparsable", tags |-> NoTags]
\* valid JSON whose top level is not an object: data.get raises AttributeError
FileBadShape == [status |-> "badshape", tags |-> NoTags]
FileValid(tags) == [status |-> "valid", tags |-> tags]

\* composite_file.exists()
Exists(file) == file.status # "missing"

\* lines 26-33: require and desire concatenated, tags without dependencies left out
DepsOf(info) == info.require \o info.desire

BuildDependencies(tags) ==
    [t \in { n \in DOMAIN tags : DepsOf(tags[n]) # << >> } |-> DepsOf(tags[t])]

\* A chain A -> B -> ... of len edges, stated by "require"; with back, the last
\* tag of the chain desires the first one (a cycle); without, the last tag has
\* an entry with no dependencies.
ChainArtifact(len, back) ==
    FileValid([t \in { Tag(i) : i \in 1 .. (len + 1) } |->
        LET i == CHOOSE k \in 1 .. (len + 1) : Tag(k) = t IN
        IF i <= len THEN [require |-> << Tag(i + 1) >>, desire |-> << >>]
        ELSE IF back THEN [require |-> << >>, desire |-> << Tag(1) >>]
        ELSE [require |-> << >>, desire |-> << >>]])

\* A: require [B], desire [C, B]; B: require [D]; C: desire [D, E]
DiamondArtifact ==
    FileValid([t \in { Tag(1), Tag(2), Tag(3) } |->
        IF t = Tag(1) THEN [require |-> << Tag(2) >>, desire |-> << Tag(3), Tag(2) >>]
        ELSE IF t = Tag(2) THEN [require |-> << Tag(4) >>, desire |-> << >>]
        ELSE [require |-> << >>, desire |-> << Tag(4), Tag(5) >>]])

\* A chain one edge longer than the pass cap in which every tag but the last
\* has two dependencies, the next tag and the first tag; swap exchanges the two
\* lists, so that the same dependencies are met in the opposite order.
BraidLen == MaxPasses + 1

BraidArtifact(swap) ==
    FileValid([t \in { Tag(i) : i \in 1 .. (BraidLen + 1) } |->
        LET i == CHOOSE k \in 1 .. (BraidLen + 1) : Tag(k) = t IN
        IF i > BraidLen THEN [require |-> << >>, desire |-> << >>]
        ELSE IF swap THEN [require |-> << Tag(1) >>, desire |-> << Tag(i + 1) >>]
        ELSE [require |-> << Tag(i + 1) >>, desire |-> << Tag(1) >>]])

\* the document of the spec's scenario: A requires B, B requires C
ScenarioArtifact == ChainArtifact(2, FALSE)

\* What one run of the generator can do: its exit code and what it leaves in
\* the artifact's place.
GeneratorOutcomes ==
    { [rc |-> r, write |-> w] : r \in {0, 1}, w \in {"none", "valid", "unparsable"} }

NoGen == [rc |-> 0, write |-> "notrun"]

FileAfter(file, outcome) ==
    IF outcome.write = "valid" THEN ScenarioArtifact
    ELSE IF outcome.write = "unparsable" THEN FileUnparsable
    ELSE file

Abort(e, site) ==
    /\ pc' = "aborted"
    /\ exc' = e
    /\ abort_site' = site

\* lines 17-38: the artifact is read if it exists; a readable one is returned
\* to line 82 and the closure loop's locals are set (lines 86-87).
TryLoadComposite ==
    /\ pc = "lcd"
    /\ load_calls' = load_calls + 1
    /\ IF composite_file.status = "valid"
       THEN /\ composite_deps' = BuildDependencies(composite_file.tags)
            /\ added' = TRUE
            /\ iterations' = 0
            /\ pc' = "while"
            /\ UNCHANGED << exc, abort_site >>
       ELSE IF composite_file.status = "badshape"
       THEN /\ Abort("AttributeError", "composite")
            /\ UNCHANGED << composite_deps, added, iterations >>
       ELSE /\ pc' = "generate"
            /\ UNCHANGED << exc, abort_site, composite_deps, added, iterations >>
    /\ UNCHANGED << composite_file, gen_calls, last_gen, required_tags, seeds,
                    current_tags, run, first_result, all_priority_tags >>
    /\ UNCHANGED << mainVars, clsVars >>

\* line 44
RetryAfter(outcome, file) == outcome.rc = 0 /\ Exists(file)

\* lines 40-49: the generator is run; on success with the artifact in place the
\* function calls itself, else it returns the empty mapping to line 82.
GenerateComposite ==
    /\ pc = "generate"
    /\ \E outcome \in GeneratorOutcomes :
        LET file == FileAfter(composite_file, outcome) IN
        /\ \/ gen_calls + 1 < MaxGenCalls
           \/ ~(RetryAfter(outcome, file) /\ file.status = "unparsable")
        /\ gen_calls' = gen_calls + 1
        /\ last_gen' = outcome
        /\ composite_file' = file
        /\ IF RetryAfter(outcome, file)
           THEN /\ pc' = "lcd"
                /\ UNCHANGED << composite_deps, added, iterations >>
           ELSE /\ composite_deps' = NoDeps
                /\ added' = TRUE
                /\ iterations' = 0
                /\ pc' = "while"
    /\ UNCHANGED << exc, abort_site, load_calls, required_tags, seeds, current_tags,
                    run, first_result, all_priority_tags >>
    /\ UNCHANGED << mainVars, clsVars >>

(***************************************************************************)
(* load_required_tags_with_dependencies                                    *)
(***************************************************************************)
\* docs/required-tags.json
RequiredFileContents ==
    << [status |-> "missing", list |-> << >>],
       [status |-> "unparsable", list |-> << >>],
       \* valid JSON that is no list, such as {"tags": ["A"]}
       [status |-> "notalist", list |-> << >>],
       \* a list holding a JSON object or list: set.update raises TypeError
       [status |-> "unhashable", list |-> << >>],
       [status |-> "list", list |-> << >>],
       [status |-> "list", list |-> << Tag(1), Tag(1) >>] >>

\* docs/tag-metadata.json
MetadataContents ==
    << [status |-> "missing", keys |-> << >>, required |-> << >>],
       [status |-> "unparsable", keys |-> << >>, required |-> << >>],
       \* valid JSON that is no mapping, such as []: metadata.items raises
       [status |-> "notamapping", keys |-> << >>, required |-> << >>],
       \* a mapping with an entry that is no mapping, such as {"B": true}
       [status |-> "badinfo", keys |-> << Tag(2) >>, required |-> << TRUE >>],
       [status |-> "mapping", keys |-> << Tag(2), Tag(4) >>,
        required |-> << TRUE, FALSE >>],
       [status |-> "mapping", keys |-> << Tag(4) >>, required |-> << FALSE >>] >>

\* lines 53-65
LoadRequiredFile ==
    /\ pc = "load_required"
    /\ \E i \in DOMAIN RequiredFileContents :
        LET f == RequiredFileContents[i] IN
        IF f.status = "unhashable"
        THEN /\ Abort("TypeError", "required_tags")
             /\ required_tags' = {}
        ELSE /\ required_tags' = IF f.status = "list" THEN Range(f.list) ELSE {}
             /\ pc' = "load_metadata"
             /\ UNCHANGED << exc, abort_site >>
    /\ UNCHANGED << composite_file, load_calls, gen_calls, last_gen, seeds,
                    composite_deps, added, iterations, current_tags, run,
                    first_result, all_priority_tags >>
    /\ UNCHANGED << mainVars, clsVars >>

\* lines 67-82: the metadata's required entries are added, the directly
\* required tags are counted and load_composite_dependencies is called
LoadMetadataFile ==
    /\ pc = "load_metadata"
    /\ \E i \in DOMAIN MetadataContents :
        LET f == MetadataContents[i] IN
        IF f.status \in {"notamapping", "badinfo"}
        THEN /\ Abort("AttributeError", "tag_metadata")
             /\ UNCHANGED << required_tags, seeds >>
        ELSE /\ required_tags' =
                    IF f.status = "mapping"
                    THEN required_tags \cup
                         { f.keys[k] : k \in { j \in DOMAIN f.keys : f.required[j] } }
                    ELSE required_tags
             /\ seeds' = required_tags'
             /\ pc' = "lcd"
             /\ UNCHANGED << exc, abort_site >>
    /\ UNCHANGED << composite_file, load_calls, gen_calls, last_gen,
                    composite_deps, added, iterations, current_tags, run,
                    first_result, all_priority_tags >>
    /\ UNCHANGED << mainVars, clsVars >>

\* the loop's test without its pass cap
LoopContinuesUncapped(a, n) == a

\* line 88: while added and iterations < 10
LoopContinues(a, n) == a /\ n < MaxPasses

\* lines 88-91 when the loop goes on, lines 101-102 when it ends
WhileTest ==
    /\ pc = "while"
    /\ IF LoopContinues(added, iterations)
       THEN /\ added' = FALSE
            /\ iterations' = iterations + 1
            /\ current_tags' = required_tags
            /\ pc' = IF required_tags = {} THEN "while" ELSE "scan"
            /\ UNCHANGED all_priority_tags
       ELSE /\ pc' = "resolved"
            /\ all_priority_tags' = required_tags
            /\ UNCHANGED << added, iterations, current_tags >>
    /\ UNCHANGED << exc, abort_site, composite_file, load_calls, gen_calls, last_gen,
                    required_tags, seeds, composite_deps, run, first_result >>
    /\ UNCHANGED << mainVars, clsVars >>

\* lines 95-98 with the flag assigned on every dependency, so that the last
\* dependency looked at decides it
RECURSIVE ScanDepsLastWins(_, _, _)
ScanDepsLastWins(deps, req, flag) ==
    IF deps = << >> THEN [required |-> req, added |-> flag]
    ELSE ScanDepsLastWins(Tail(deps), req \cup {Head(deps)}, Head(deps) \notin req)

\* lines 95-98 for one tag: its dependencies, in list order, each added when absent
RECURSIVE ScanDeps(_, _, _)
ScanDeps(deps, req, flag) ==
    IF deps = << >> THEN [required |-> req, added |-> flag]
    ELSE IF Head(deps) \notin req
    THEN ScanDeps(Tail(deps), req \cup {Head(deps)}, TRUE)
    ELSE ScanDeps(Tail(deps), req, flag)

\* line 94 without the snapshot of line 91: a tag added while the pass runs is
\* scanned in the same pass
RECURSIVE ScanOneLive(_, _, _, _)
ScanOneLive(tag, deps, req, flag) ==
    LET r == IF tag \in DOMAIN deps THEN ScanDeps(deps[tag], req, flag)
             ELSE [required |-> req, added |-> flag]
        new == r.required \ req
    IN  IF new = {} THEN r
        ELSE ScanOneLive(CHOOSE n \in new : TRUE, deps, r.required, r.added)

\* line 94
ScanOne(tag, deps, req, flag) ==
    IF tag \in DOMAIN deps THEN ScanDeps(deps[tag], req, flag)
    ELSE [required |-> req, added |-> flag]

\* lines 93-99: the loop body for the next tag of the snapshot; list(set) has no
\* stated order, so any tag not scanned yet can come next
ScanTag ==
    /\ pc = "scan"
    /\ \E tag \in current_tags :
        LET r == ScanOne(tag, composite_deps, required_tags, added) IN
        /\ required_tags' = r.required
        /\ added' = r.added
        /\ current_tags' = current_tags \ {tag}
        /\ pc' = IF current_tags' = {} THEN "while" ELSE "scan"
    /\ UNCHANGED << exc, abort_site, composite_file, load_calls, gen_calls, last_gen,
                    seeds, composite_deps, iterations, run, first_result,
                    all_priority_tags >>
    /\ UNCHANGED << mainVars, clsVars >>

\* Resolution run again on its own output: lines 85-102 entered with the set
\* the first run returned as the set of directly required tags.
Rerun ==
    /\ pc = "resolved"
    /\ run = 1
    /\ run' = 2
    /\ first_result' = required_tags
    /\ seeds' = required_tags
    /\ added' = TRUE
    /\ iterations' = 0
    /\ pc' = "while"
    /\ UNCHANGED << exc, abort_site, composite_file, load_calls, gen_calls, last_gen,
                    required_tags, composite_deps, current_tags, all_priority_tags >>
    /\ UNCHANGED << mainVars, clsVars >>

(***************************************************************************)
(* JSON values, as json.loads returns them.  k is the Python type: "str",  *)
(* "num", "arr" (list) or "obj" (dict); an object is the list of its       *)
(* (key, value) pairs in document order, the order dict.items() follows.   *)
(***************************************************************************)
JStr(text) == [k |-> "str", v |-> text]
JNum == [k |-> "num", v |-> << >>]
JArr(items) == [k |-> "arr", v |-> items]
JObj(pairs) == [k |-> "obj", v |-> pairs]

\* key in obj
Has(obj, key) == \E i \in DOMAIN obj.v : obj.v[i][1] = key

\* obj[key]
Get(obj, key) == obj.v[CHOOSE i \in DOMAIN obj.v : obj.v[i][1] = key][2]

\* obj.get(key, default)
GetOr(obj, key, default) == IF Has(obj, key) THEN Get(obj, key) ELSE default

(***************************************************************************)
(* extract_module_expressions                                              *)
(***************************************************************************)
Kinds == << "ValueConv", "PrintConv", "Condition" >>
KindSet == Range(Kinds)

\* line 131, lines 136-140
NoExpressions == [kd \in KindSet |-> << >>]

\* Path(module_path).stem: the last component without its last suffix
LastIndexOf(c, s) ==
    IF HasChar(c, s) THEN CHOOSE i \in DOMAIN s :
                              s[i] = c /\ \A j \in DOMAIN s : s[j] = c => j <= i
    ELSE 0
BaseName(path) == SubSeq(path, LastIndexOf("/", path) + 1, Len(path))
Stem(path) ==
    LET name == BaseName(path)
        dot == LastIndexOf(".", name)
    IN  IF 1 < dot /\ dot < Len(name) THEN SubSeq(name, 1, dot - 1) ELSE name

\* f"{module_name}.{tag_name}"
FullName(module_name, tag_name) == module_name \o << "." >> \o tag_name

\* lines 168, 192: the characters that make a string an expression
Indicators == { "$", "(", "?", "/", "\"", "=" }

\* every string counts as an expression
HasIndicatorAlways(text) == TRUE

\* any(c in expr for c in ['$', '(', '?', '/', '"', '='])
HasIndicator(text) == \E c \in Indicators : HasChar(c, text)

\* isinstance(expr, str) and any(...)
IsExpression(value) == value.k = "str" /\ HasIndicator(value.v)

\* lines 157-158, 181-182
IsPriority(tag_name, normalized_priority) ==
    normalize_tag_name(tag_name) \in normalized_priority

\* lines 164-172 and 188-196: the three kinds of one tag definition
Collect(tag_def, full_name, exprs) ==
    [kd \in KindSet |->
        IF Has(tag_def, kd) /\ IsExpression(Get(tag_def, kd))
        THEN Append(exprs[kd], [tag |-> full_name, expression |-> Get(tag_def, kd).v])
        ELSE exprs[kd]]

\* lines 152-172: the entries of a hash symbol, in order
RECURSIVE ScanHash(_, _, _, _)
ScanHash(pairs, module_name, normalized_priority, exprs) ==
    IF pairs = << >> THEN exprs
    ELSE LET tag_name == Head(pairs)[1]
             tag_def == Head(pairs)[2]
         IN  IF tag_def.k # "obj" \/ ~IsPriority(tag_name, normalized_priority)
             THEN ScanHash(Tail(pairs), module_name, normalized_priority, exprs)
             ELSE ScanHash(Tail(pairs), module_name, normalized_priority,
                           Collect(tag_def, FullName(module_name, tag_name), exprs))

\* lines 176-196: the items of an array symbol, in order
RECURSIVE ScanArray(_, _, _, _)
ScanArray(items, module_name, normalized_priority, exprs) ==
    IF items = << >> THEN exprs
    ELSE LET item == Head(items) IN
         IF item.k = "obj" /\ Has(item, "Name")
            /\ IsPriority(Get(item, "Name").v, normalized_priority)
         THEN ScanArray(Tail(items), module_name, normalized_priority,
                        Collect(item, FullName(module_name, Get(item, "Name").v), exprs))
         ELSE ScanArray(Tail(items), module_name, normalized_priority, exprs)

TypeHash == << "h", "a", "s", "h" >>
TypeArray == << "a", "r", "r", "a", "y" >>

\* symbol.get('type') == name
IsType(symbol, name) ==
    Has(symbol, "type") /\ Get(symbol, "type").k = "str" /\ Get(symbol, "type").v = name

\* lines 143-196: the symbols, in order
RECURSIVE ScanSymbols(_, _, _, _)
ScanSymbols(all_data, module_name, normalized_priority, exprs) ==
    IF all_data = << >> THEN exprs
    ELSE LET symbol == Head(all_data)
             symbol_data == IF symbol.k = "obj"
                            THEN GetOr(symbol, "data", JObj(<< >>)) ELSE JNum
             next ==
                IF symbol.k # "obj" THEN exprs
                ELSE IF IsType(symbol, TypeHash) /\ symbol_data.k = "obj"
                THEN ScanHash(symbol_data.v, module_name, normalized_priority, exprs)
                ELSE IF IsType(symbol, TypeArray) /\ symbol_data.k = "arr"
                THEN ScanArray(symbol_data.v, module_name, normalized_priority, exprs)
                ELSE exprs
         IN  ScanSymbols(Tail(all_data), module_name, normalized_priority, next)

\* lines 120-127: a line of the extractor's output is empty, is no JSON (skipped)
\* or is a JSON value
IsJsonLine(line) == line.k = "json"
ParseLines(lines) ==
    LET kept == SelectSeq(lines, IsJsonLine) IN [i \in DOMAIN kept |-> kept[i].json]

\* the extractor's exit code not checked (check=False)
extract_ignoring_exit_code(module_path, res, priority_tags) ==
    ScanSymbols(ParseLines(res.lines), Stem(module_path),
                { normalize_tag_name(t) : t \in priority_tags }, NoExpressions)

\* lines 108-198; res is the subprocess's exit code and the lines of its output
extract_module_expressions(module_path, res, priority_tags) ==
    IF res.rc # 0 THEN NoExpressions
    ELSE ScanSymbols(ParseLines(res.lines), Stem(module_path),
                     { normalize_tag_name(t) : t \in priority_tags }, NoExpressions)

(***************************************************************************)
(* analyze_expression_patterns                                             *)
(***************************************************************************)
Categories == << "sprintf", "unpack", "pack", "ternary", "regex_match",
                 "regex_substitute", "arithmetic", "string_concat",
                 "function_calls", "hash_lookups", "complex" >>
CategorySet == Range(Categories)

\* lines 202-214
NoPatterns == [c \in CategorySet |-> << >>]

KwSprintf == << "s", "p", "r", "i", "n", "t", "f" >>
KwUnpack == << "u", "n", "p", "a", "c", "k" >>
KwPack == << "p", "a", "c", "k" >>
OpBind == << "=", "~" >>
OpSubst == << "s", "/" >>

\* \w and \s of the regular expression of line 238
WordChars == Range(UpperCs) \cup Range(LowerCs) \cup Range(DigitCs) \cup {"_"}
IsWordChar(c) == c \in WordChars
IsSpace(c) == c = " "

\* re.search(r'\b\w+\s*\(', expr): a word character, then white space or
\* nothing, then an opening parenthesis (a run of word characters always
\* starts at a word boundary)
FunctionCall(expr) ==
    \E j \in DOMAIN expr :
        /\ expr[j] = "("
        /\ \E i \in 1 .. (j - 1) :
            /\ IsWordChar(expr[i])
            /\ \A m \in (i + 1) .. (j - 1) : IsSpace(expr[m])

\* line 234: '**' holds '*', so the list comes to these characters
ArithmeticOps == { "+", "-", "*", "/", "%" }

Add(pats, category, tag) == [pats EXCEPT ![category] = Append(@, tag)]

\* the categories tried in turn, the first one that matches taken (elif)
ClassifyItemFirstMatch(pats, item) ==
    LET expr == item.expression
        tag == item.tag
    IN  IF Contains(KwSprintf, expr) THEN Add(pats, "sprintf", tag)
        ELSE IF Contains(KwUnpack, expr) THEN Add(pats, "unpack", tag)
        ELSE IF Contains(KwPack, expr) THEN Add(pats, "pack", tag)
        ELSE IF HasChar("?", expr) /\ HasChar(":", expr) THEN Add(pats, "ternary", tag)
        ELSE IF Contains(OpBind, expr) /\ HasChar("/", expr)
        THEN IF Contains(OpSubst, expr) THEN Add(pats, "regex_substitute", tag)
             ELSE Add(pats, "regex_match", tag)
        ELSE IF \E op \in ArithmeticOps : HasChar(op, expr)
        THEN Add(pats, "arithmetic", tag)
        ELSE IF HasChar(".", expr) /\ HasChar("\"", expr)
        THEN Add(pats, "string_concat", tag)
        ELSE IF FunctionCall(expr) THEN Add(pats, "function_calls", tag)
        ELSE IF HasChar("{", expr) THEN Add(pats, "hash_lookups", tag)
        ELSE IF CountChar("(", expr) > ComplexParens \/ Len(expr) > ComplexLen
        THEN Add(pats, "complex", tag)
        ELSE pats

\* lines 216-245: the loop body for one item, statement by statement
ClassifyItem(pats, item) ==
    LET expr == item.expression
        tag == item.tag
        p1 == IF Contains(KwSprintf, expr) THEN Add(pats, "sprintf", tag) ELSE pats
        p2 == IF Contains(KwUnpack, expr) THEN Add(p1, "unpack", tag) ELSE p1
        p3 == IF Contains(KwPack, expr) THEN Add(p2, "pack", tag) ELSE p2
        p4 == IF HasChar("?", expr) /\ HasChar(":", expr)
              THEN Add(p3, "ternary", tag) ELSE p3
        p5 == IF Contains(OpBind, expr) /\ HasChar("/", expr)
              THEN IF Contains(OpSubst, expr) THEN Add(p4, "regex_substitute", tag)
                   ELSE Add(p4, "regex_match", tag)
              ELSE p4
        p6 == IF \E op \in ArithmeticOps : HasChar(op, expr)
              THEN Add(p5, "arithmetic", tag) ELSE p5
        p7 == IF HasChar(".", expr) /\ HasChar("\"", expr)
              THEN Add(p6, "string_concat", tag) ELSE p6
        p8 == IF FunctionCall(expr) THEN Add(p7, "function_calls", tag) ELSE p7
        \* item['expression'] is a str here: only strings are collected (lines
        \* 168, 192), so the isinstance(..., dict) test of line 240 is false
        p9 == IF HasChar("{", expr) THEN Add(p8, "hash_lookups", tag) ELSE p8
        p10 == IF CountChar("(", expr) > ComplexParens \/ Len(expr) > ComplexLen
               THEN Add(p9, "complex", tag) ELSE p9
    IN  p10

\* sorted(S) for a set of texts
RECURSIVE SortedSet(_)
SortedSet(S) ==
    IF S = {} THEN << >>
    ELSE LET least == CHOOSE x \in S : \A y \in S \ {x} : StrLess(x, y)
         IN  << least >> \o SortedSet(S \ {least})

\* line 248: {k: (sorted(set(v)), len(set(v))) for k, v in patterns.items() if v}
Finalize(pats) ==
    [c \in { d \in CategorySet : pats[d] # << >> } |->
        [tags |-> SortedSet(Range(pats[c])), count |-> Cardinality(Range(pats[c]))]]

RECURSIVE ClassifyAll(_, _)
ClassifyAll(pats, items) ==
    IF items = << >> THEN pats
    ELSE ClassifyAll(ClassifyItem(pats, Head(items)), Tail(items))

\* lines 200-248
analyze_expression_patterns(items) == Finalize(ClassifyAll(NoPatterns, items))

(***************************************************************************)
(* The resolver on its own: one call of                                    *)
(* load_required_tags_with_dependencies, over artifacts with dependency    *)
(* chains longer than the pass cap.                                        *)
(***************************************************************************)
ResolveArtifacts ==
    { FileMissing, FileUnparsable, FileBadShape, DiamondArtifact }
    \cup { ChainArtifact(len, back) : len \in 0 .. (NTags - 1), back \in BOOLEAN }
    \cup { BraidArtifact(swap) : swap \in BOOLEAN }

InitResolveVars ==
    /\ exc = "none"
    /\ abort_site = "none"
    /\ load_calls = 0
    /\ gen_calls = 0
    /\ last_gen = NoGen
    /\ required_tags = {}
    /\ seeds = {}
    /\ composite_deps = NoDeps
    /\ added = FALSE
    /\ iterations = 0
    /\ current_tags = {}
    /\ run = 1
    /\ first_result = {}
    /\ all_priority_tags = {}

NoResult == [rc |-> 0, lines |-> << >>]
NoAggregate == [kd \in KindSet |-> << >>]
NoOutput == [emitted |-> FALSE]

InitMainVars ==
    /\ module_paths = << >>
    /\ module_idx = 0
    /\ result = NoResult
    /\ expressions = NoExpressions
    /\ all_expressions = NoAggregate
    /\ output = NoOutput

InitClsVars ==
    /\ cls_items = << >>
    /\ cls_idx = 0
    /\ patterns = NoPatterns
    /\ cls_result = Finalize(NoPatterns)

InitResolve ==
    /\ pc = "load_required"
    /\ composite_file \in ResolveArtifacts
    /\ InitResolveVars
    /\ InitMainVars
    /\ InitClsVars

NextResolve ==
    \/ LoadRequiredFile
    \/ LoadMetadataFile
    \/ TryLoadComposite
    \/ GenerateComposite
    \/ WhileTest
    \/ ScanTag
    \/ Rerun

SpecResolve == InitResolve /\ [][NextResolve]_vars

(***************************************************************************)
(* Texts of the model.                                                     *)
(***************************************************************************)
\* sprintf("%d",$val+1)
ExprSprintf ==
    << "s", "p", "r", "i", "n", "t", "f", "(", "\"", "%", "d", "\"", ",",
       "$", "v", "a", "l", "+", "1", ")" >>
\* $val =~ s/a/b/
ExprSubstitute ==
    << "$", "v", "a", "l", " ", "=", "~", " ", "s", "/", "a", "/", "b", "/" >>
\* $val =~ /a/ ? 1 : 0
ExprMatch ==
    << "$", "v", "a", "l", " ", "=", "~", " ", "/", "a", "/", " ", "?", " ",
       "1", " ", ":", " ", "0" >>
\* unpack ("n",$val)
ExprUnpack ==
    << "u", "n", "p", "a", "c", "k", " ", "(", "\"", "n", "\"", ",", "$",
       "v", "a", "l", ")" >>
\* $val . "x"
ExprConcat ==
    << "$", "v", "a", "l", " ", ".", " ", "\"", "x", "\"" >>
\* $$self{A}
ExprLookup ==
    << "$", "$", "s", "e", "l", "f", "{", "A", "}" >>
\* ((((1))))
ExprNested ==
    << "(", "(", "(", "(", "1", ")", ")", ")", ")" >>
\* Unknown
ExprLiteral ==
    << "U", "n", "k", "n", "o", "w", "n" >>
\* $val
ExprVal ==
    << "$", "v", "a", "l" >>

RECURSIVE Repeat(_, _)
Repeat(c, n) == IF n = 0 THEN << >> ELSE << c >> \o Repeat(c, n - 1)

\* a literal of 101 characters
ExprLong == Repeat("x", ComplexLen + 1)

ModuleM == << "M", ".", "p", "m" >>
ModuleN == << "l", "i", "b", "/", "N", ".", "p", "m" >>

(***************************************************************************)
(* The classifier on its own: one call of analyze_expression_patterns,     *)
(* item by item.                                                           *)
(***************************************************************************)
MaxItems == 2        \* items of one call of the classifier

ClassifyTexts ==
    { ExprSprintf, ExprSubstitute, ExprMatch, ExprUnpack, ExprConcat, ExprLookup,
      ExprNested, ExprLiteral, ExprLong }

ClassifyInputs ==
    { [tag |-> t, expression |-> e] :
        t \in { FullName(Stem(ModuleM), Tag(1)), FullName(Stem(ModuleN), Tag(2)) },
        e \in ClassifyTexts }

\* the sequences over S of 1 to n items
SeqsUpTo(S, n) == UNION { [1 .. m -> S] : m \in 1 .. n }

InitClassify ==
    /\ pc = "classify"
    /\ composite_file = FileMissing
    /\ InitResolveVars
    /\ InitMainVars
    /\ cls_items \in SeqsUpTo(ClassifyInputs, MaxItems)
    /\ cls_idx = 1
    /\ patterns = NoPatterns
    /\ cls_result = Finalize(NoPatterns)

\* lines 216-245, for the next item
ClassifyNext ==
    /\ pc = "classify"
    /\ cls_idx <= Len(cls_items)
    /\ patterns' = ClassifyItem(patterns, cls_items[cls_idx])
    /\ cls_idx' = cls_idx + 1
    /\ UNCHANGED << pc, exc, abort_site, cls_items, cls_result >>
    /\ UNCHANGED << resolveVars, mainVars >>

\* line 248
ClassifyReturn ==
    /\ pc = "classify"
    /\ cls_idx > Len(cls_items)
    /\ cls_result' = Finalize(patterns)
    /\ pc' = "classified"
    /\ UNCHANGED << exc, abort_site, cls_items, cls_idx, patterns >>
    /\ UNCHANGED << resolveVars, mainVars >>

NextClassify == ClassifyNext \/ ClassifyReturn

SpecClassify == InitClassify /\ [][NextClassify]_vars


(***************************************************************************)
(* main                                                                    *)
(***************************************************************************)
\* lines 257-260: the patcher is run and its exit code ignored (check=False)
RunPatcher ==
    /\ pc = "main"
    /\ \E rc \in {0, 1} : pc' = "load_required"
    /\ UNCHANGED << exc, abort_site >>
    /\ UNCHANGED << resolveVars, mainVars, clsVars >>

\* config/exiftool_modules.json: {"modules": {group: [module path, ...]}}
ModuleConfigs ==
    << [status |-> "missing", groups |-> << >>],
       [status |-> "unparsable", groups |-> << >>],
       \* valid JSON without the "modules" key
       [status |-> "nokey", groups |-> << >>],
       [status |-> "valid", groups |-> << >>],
       [status |-> "valid", groups |-> << << ModuleM >> >>],
       [status |-> "valid", groups |-> << << ModuleM >>, << ModuleN >> >>] >>

\* lines 270-272
RECURSIVE Flatten(_)
Flatten(groups) ==
    IF groups = << >> THEN << >> ELSE Head(groups) \o Flatten(Tail(groups))

ConfigError(status) ==
    CASE status = "missing" -> "FileNotFoundError"
      [] status = "unparsable" -> "JSONDecodeError"
      [] status = "nokey" -> "KeyError"

\* lines 265-281
LoadModulesConfig ==
    /\ pc = "resolved"
    /\ \E i \in DOMAIN ModuleConfigs :
        LET cfg == ModuleConfigs[i] IN
        IF cfg.status # "valid"
        THEN /\ Abort(ConfigError(cfg.status), "modules_config")
             /\ UNCHANGED << module_paths, module_idx >>
        ELSE /\ module_paths' = Flatten(cfg.groups)
             /\ module_idx' = 1
             /\ pc' = IF module_paths' = << >> THEN "report" ELSE "extract"
             /\ UNCHANGED << exc, abort_site >>
    /\ UNCHANGED << result, expressions, all_expressions, output >>
    /\ UNCHANGED << resolveVars, clsVars >>

\* What the extractor can print for one module.
Line(j) == [k |-> "json", json |-> j]
InvalidLine == [k |-> "invalid", json |-> JNum]
EmptyLine == [k |-> "empty", json |-> JNum]
Symbol(type, data) == JObj(<< << "type", JStr(type) >>, << "data", data >> >>)

\* %Main = (a => {ValueConv => '$val', PrintConv => '$val', Condition => 'Unknown'},
\*          Q => {PrintConv => 'sprintf("%d",$val+1)'}, B => '$val')
HashSymbol ==
    Symbol(TypeHash, JObj(<<
        << << "a" >>, JObj(<< << "ValueConv", JStr(ExprVal) >>,
                              << "PrintConv", JStr(ExprVal) >>,
                              << "Condition", JStr(ExprLiteral) >> >>) >>,
        << << "Q" >>, JObj(<< << "PrintConv", JStr(ExprSprintf) >> >>) >>,
        << << "B" >>, JStr(ExprVal) >> >>))

\* an array of tag definitions: "A" with two expressions, one without a Name,
\* a string, and "b_" with a condition, a number and a lookup table
ArraySymbol ==
    Symbol(TypeArray, JArr(<<
        JObj(<< << "Name", JStr(<< "A" >>) >>,
                << "PrintConv", JStr(ExprSprintf) >>,
                << "ValueConv", JStr(ExprSprintf) >> >>),
        JObj(<< << "PrintConv", JStr(ExprVal) >> >>),
        JStr(ExprVal),
        JObj(<< << "Name", JStr(<< "b", "_" >>) >>,
                << "Condition", JStr(ExprVal) >>,
                << "PrintConv", JNum >>,
                << "ValueConv", JObj(<< << "0", JStr(ExprVal) >> >>) >> >>) >>))

\* two tables of one module that both define the tag "A" with the same PrintConv
DupHashSymbol ==
    Symbol(TypeHash, JObj(<<
        << << "A" >>, JObj(<< << "PrintConv", JStr(ExprVal) >> >>) >> >>))
DupArraySymbol ==
    Symbol(TypeArray, JArr(<<
        JObj(<< << "Name", JStr(<< "A" >>) >>, << "PrintConv", JStr(ExprVal) >> >>) >>))

ExtractorOutputs ==
    << \* the extractor fails after printing a symbol
       [rc |-> 1, lines |-> << Line(HashSymbol) >>],
       [rc |-> 0, lines |-> << InvalidLine, Line(HashSymbol) >>],
       [rc |-> 0, lines |-> << Line(ArraySymbol), EmptyLine >>],
       [rc |-> 0, lines |-> << Line(DupHashSymbol), Line(DupArraySymbol) >>],
       \* nothing to collect: a list, a hash symbol whose data is a list, an
       \* array symbol without data, a line that is no JSON
       [rc |-> 0, lines |-> << Line(JArr(<< >>)),
                               Line(Symbol(TypeHash, JArr(<< JStr(ExprVal) >>))),
                               Line(JObj(<< << "type", JStr(TypeArray) >> >>)),
                               InvalidLine >>] >>

\* line 284
ExtractModule ==
    /\ pc = "extract"
    /\ \E i \in DOMAIN ExtractorOutputs :
        /\ result' = ExtractorOutputs[i]
        /\ expressions' = extract_module_expressions(module_paths[module_idx],
                                                     ExtractorOutputs[i],
                                                     all_priority_tags)
    /\ pc' = "merge"
    /\ UNCHANGED << exc, abort_site, module_paths, module_idx, all_expressions, output >>
    /\ UNCHANGED << resolveVars, clsVars >>

\* line 289: all_expressions[expr_type][expr_str].append(item['tag']); an
\* expression is a str here (lines 168, 192), so expr_str is its text
MergeItem(entries, item) ==
    IF \E i \in DOMAIN entries : entries[i].expr = item.expression
    THEN LET i == CHOOSE n \in DOMAIN entries : entries[n].expr = item.expression
         IN  [entries EXCEPT ![i].tags = Append(@, item.tag)]
    ELSE Append(entries, [expr |-> item.expression, tags |-> << item.tag >>])

\* lines 287-289
RECURSIVE MergeItems(_, _)
MergeItems(entries, items) ==
    IF items = << >> THEN entries
    ELSE MergeItems(MergeItem(entries, Head(items)), Tail(items))

\* lines 286-289, and the loop's step to the next module
MergeModule ==
    /\ pc = "merge"
    /\ all_expressions' =
            [kd \in KindSet |-> MergeItems(all_expressions[kd], expressions[kd])]
    /\ module_idx' = module_idx + 1
    /\ pc' = IF module_idx < Len(module_paths) THEN "extract" ELSE "report"
    /\ UNCHANGED << exc, abort_site, module_paths, result, expressions, output >>
    /\ UNCHANGED << resolveVars, clsVars >>

\* sorted(..., key=..., reverse=True) on items that carry their key: a stable
\* sort, so items of equal key keep their order
RECURSIVE InsertDesc(_, _)
InsertDesc(x, sorted) ==
    IF sorted = << >> THEN << x >>
    ELSE IF Head(sorted).key >= x.key THEN << Head(sorted) >> \o InsertDesc(x, Tail(sorted))
    ELSE << x >> \o sorted

RECURSIVE SortDescInto(_, _)
SortDescInto(items, sorted) ==
    IF items = << >> THEN sorted
    ELSE SortDescInto(Tail(items), InsertDesc(Head(items), sorted))

SortDesc(items) == SortDescInto(items, << >>)

\* sorted(tags) for a list of texts
RECURSIVE InsertText(_, _)
InsertText(x, sorted) ==
    IF sorted = << >> THEN << x >>
    ELSE IF StrLess(x, Head(sorted)) THEN << x >> \o sorted
    ELSE << Head(sorted) >> \o InsertText(x, Tail(sorted))

RECURSIVE SortTexts(_)
SortTexts(texts) ==
    IF texts = << >> THEN << >> ELSE InsertText(Head(texts), SortTexts(Tail(texts)))

\* list[:n]
Take(list, n) == SubSeq(list, 1, IF Len(list) < n THEN Len(list) ELSE n)

RECURSIVE SumLens(_)
SumLens(entries) ==
    IF entries = << >> THEN 0 ELSE Len(Head(entries).tags) + SumLens(Tail(entries))

\* lines 321-324
RECURSIVE AllItems(_)
AllItems(entries) ==
    IF entries = << >> THEN << >>
    ELSE [i \in DOMAIN Head(entries).tags |->
             [expression |-> Head(entries).expr, tag |-> Head(entries).tags[i]]]
         \o AllItems(Tail(entries))

\* line 309
EntryCount(tags) == Len(tags)

\* lines 300-328 for one kind
KindReport(entries) ==
    LET sorted_exprs ==
            SortDesc([i \in DOMAIN entries |->
                         [key |-> Len(entries[i].tags), item |-> entries[i]]])
        expr_list ==
            [i \in DOMAIN sorted_exprs |->
                [expression |-> sorted_exprs[i].item.expr,
                 count |-> EntryCount(sorted_exprs[i].item.tags),
                 tags |-> SortTexts(sorted_exprs[i].item.tags)]]
    IN  [unique_count |-> Len(sorted_exprs),
         total_usage |-> SumLens(entries),
         top_expressions |-> Take(expr_list, TopN),
         all_expressions |-> expr_list,
         has_patterns |-> AllItems(entries) # << >>,
         patterns |-> analyze_expression_patterns(AllItems(entries))]

\* lines 331-333
AllExprStrings(all) ==
    UNION { { all[kd][i].expr : i \in DOMAIN all[kd] } : kd \in KindSet }

\* expr in all_expressions[expr_type]
InKind(all, kd, expr) == \E i \in DOMAIN all[kd] : all[kd][i].expr = expr
TagsIn(all, kd, expr) == all[kd][CHOOSE i \in DOMAIN all[kd] : all[kd][i].expr = expr].tags

KindsSorted == << "Condition", "PrintConv", "ValueConv" >>

\* lines 337-349 for one text: its entry and its sort key (line 352)
SharedEntry(all, expr) ==
    LET types_used == { kd \in KindSet : InKind(all, kd, expr) }
        IsUsed(kd) == kd \in types_used
        tags == [kd \in types_used |-> SortTexts(TagsIn(all, kd, expr))]
        lens == [i \in DOMAIN Kinds |->
                    IF Kinds[i] \in types_used THEN Len(tags[Kinds[i]]) ELSE 0]
    IN  [key |-> lens[1] + lens[2] + lens[3],
         item |-> [expression |-> expr,
                   used_in |-> SelectSeq(KindsSorted, IsUsed),
                   tags |-> tags]]

IsShared(all, expr) == Cardinality({ kd \in KindSet : InKind(all, kd, expr) }) > 1

\* lines 335-353: the texts in the order the set is iterated, those of two
\* kinds or more kept, sorted by their number of tags, the first 20 taken
RECURSIVE SharedOf(_, _)
SharedOf(all, order) ==
    IF order = << >> THEN << >>
    ELSE (IF IsShared(all, Head(order)) THEN << SharedEntry(all, Head(order)) >>
          ELSE << >>) \o SharedOf(all, Tail(order))

SharedExpressions(all, order) ==
    LET sorted == Take(SortDesc(SharedOf(all, order)), TopN)
    IN  [i \in DOMAIN sorted |-> sorted[i].item]

\* lines 292-353; json.dumps(..., sort_keys=True) fixes the order of the keys
\* of every mapping, so the document printed is this value
BuildOutput(priority, paths, all, order) ==
    [emitted |-> TRUE,
     summary |-> [total_required_tags |-> Cardinality(priority),
                  modules_processed |-> Len(paths)],
     expressions |-> [kd \in KindSet |-> KindReport(all[kd])],
     shared_expressions |-> SharedExpressions(all, order)]

\* the orders in which a set can be iterated
Orders(S) ==
    { f \in [1 .. Cardinality(S) -> S] : \A x \in S : \E i \in DOMAIN f : f[i] = x }

\* lines 291-356: the report is built and printed; the set of texts of line
\* 331 is a set of str, iterated in an order that hash randomisation changes
\* from run to run
Report ==
    /\ pc = "report"
    /\ \E order \in Orders(AllExprStrings(all_expressions)) :
        output' = BuildOutput(all_priority_tags, module_paths, all_expressions, order)
    /\ pc' = "done"
    /\ UNCHANGED << exc, abort_site, module_paths, module_idx, result, expressions,
                    all_expressions >>
    /\ UNCHANGED << resolveVars, clsVars >>

MainArtifacts == { FileMissing, FileUnparsable, FileBadShape, ScenarioArtifact }

Init ==
    /\ pc = "main"
    /\ composite_file \in MainArtifacts
    /\ InitResolveVars
    /\ InitMainVars
    /\ InitClsVars

Next ==
    \/ RunPatcher
    \/ LoadRequiredFile
    \/ LoadMetadataFile
    \/ TryLoadComposite
    \/ GenerateComposite
    \/ WhileTest
    \/ ScanTag
    \/ LoadModulesConfig
    \/ ExtractModule
    \/ MergeModule
    \/ Report

Spec == Init /\ [][Next]_vars

\* the loop over the modules keeps running: the program is sequential and
\* each of its steps is taken once it is reached
FairSpec == Spec /\ WF_vars(ExtractModule) /\ WF_vars(MergeModule)

FairSpecResolve == SpecResolve /\ WF_vars(NextResolve)

(***************************************************************************)
(* Properties of the resolver.                                             *)
(***************************************************************************)
\* the tags a set reaches in one step of the dependency graph
OneStep(S, G) == S \cup UNION { Range(G[t]) : t \in S \cap DOMAIN G }

\* the transitive closure of S under G: the least superset of S closed under G
RECURSIVE TransitiveClosure(_, _)
TransitiveClosure(S, G) ==
    IF OneStep(S, G) = S THEN S ELSE TransitiveClosure(OneStep(S, G), G)

\* some tag of G depends on itself, directly or through other tags
HasCycle(G) ==
    \E t \in DOMAIN G : t \in TransitiveClosure(Range(G[t]), G)

ScenarioDeps == BuildDependencies(ScenarioArtifact.tags)

\* C1: the set the resolver returns contains every seed, is a subset of the
\* transitive closure of the seeds under the dependency graph, and is that
\* closure whenever the loop stopped because a full pass added no tag; for
\* A -> [B], B -> [C] and the seed {A} it is {A, B, C}.
C1_ClosureSound ==
    pc = "resolved" =>
        /\ seeds \subseteq required_tags
        /\ required_tags \subseteq TransitiveClosure(seeds, composite_deps)
        /\ (~added => required_tags = TransitiveClosure(seeds, composite_deps))
        /\ (seeds = {Tag(1)} /\ composite_deps = ScenarioDeps
                => required_tags = {Tag(1), Tag(2), Tag(3)})

\* the pass cap ended the loop while tags were still being added, and the
\* result falls short of the closure
C1_Witness ==
    /\ pc = "resolved"
    /\ run = 1
    /\ added
    /\ iterations = MaxPasses
    /\ seeds # {}
    /\ required_tags # TransitiveClosure(seeds, composite_deps)

\* C2: whatever the graph (cycles, dependencies that are no keys) and the
\* seeds, the closure loop makes at most 10 passes and then returns.
C2_Terminates ==
    /\ [](iterations <= MaxPasses)
    /\ (pc \in {"while", "scan"}) ~> (pc = "resolved")

\* a cyclic graph whose resolution was ended by the pass cap
C2_Witness ==
    /\ pc = "resolved"
    /\ HasCycle(composite_deps)
    /\ seeds \cap DOMAIN composite_deps # {}
    /\ iterations = MaxPasses
    /\ added

\* C3: over a graph without cycles, resolution run again on the set it
\* returned returns that set.
C3_Idempotent ==
    (pc = "resolved" /\ run = 2 /\ ~HasCycle(composite_deps))
        => required_tags = first_result

\* C4: one call of the loader runs the generator at most once and loads at
\* most once more after it; when the artifact is not parsable after that, the
\* call returns the empty mapping.
C4_OneShotRegeneration ==
    /\ gen_calls <= 1
    /\ load_calls <= 2
    /\ (pc = "while" /\ run = 1 /\ iterations = 0 /\ gen_calls > 0
            /\ composite_file.status # "valid"
        => composite_deps = NoDeps)

\* the set after at most n passes, each pass adding the dependencies of the
\* tags present when it starts; no scan order enters it
RECURSIVE ClosureWithin(_, _, _)
ClosureWithin(S, G, n) ==
    IF n = 0 \/ OneStep(S, G) = S THEN S
    ELSE ClosureWithin(OneStep(S, G), G, n - 1)

\* C11: the members of the set the closure loop returns are fixed by the seed
\* set and the dependency graph alone, whatever the order in which the tags of
\* a pass and the dependencies of a tag are scanned, also when the loop ends
\* at its 10-pass cap with tags still being added.
C11_ScanOrderFree ==
    /\ pc = "resolved"
            => required_tags = ClosureWithin(seeds, composite_deps, MaxPasses)
    /\ pc = "while" /\ iterations > 0 /\ iterations <= MaxPasses
            => required_tags = ClosureWithin(seeds, composite_deps, iterations)

\* the cap ended the loop with tags still being added, over a graph whose tags
\* have two dependencies each listed first-tag-first, and the result falls
\* short of the closure
C11_Witness ==
    /\ pc = "resolved"
    /\ run = 1
    /\ added
    /\ iterations = MaxPasses
    /\ composite_deps = BuildDependencies(BraidArtifact(TRUE).tags)
    /\ seeds = {Tag(1)}
    /\ Cardinality(required_tags) = MaxPasses + 1
    /\ required_tags # TransitiveClosure(seeds, composite_deps)

(***************************************************************************)
(* Properties of the extractor and of the report.                          *)
(***************************************************************************)
\* C5: in the report, for each kind, every distinct text has exactly one
\* entry, the entry lists every tag that uses the text, and its count is the
\* number of distinct tag identifiers using the text.
C5_CountsDistinctTags ==
    pc = "done" =>
        \A kd \in KindSet :
            LET list == output.expressions[kd].all_expressions IN
            /\ \A i \in DOMAIN list : \A j \in DOMAIN list :
                    list[i].expression = list[j].expression => i = j
            /\ \A n \in DOMAIN all_expressions[kd] :
                    \E i \in DOMAIN list :
                        /\ list[i].expression = all_expressions[kd][n].expr
                        /\ Range(list[i].tags) = Range(all_expressions[kd][n].tags)
            /\ \A i \in DOMAIN list :
                    list[i].count = Cardinality(Range(list[i].tags))

\* C6: the report depends on the inputs alone: whatever the order in which
\* the set of texts is iterated, the report emitted is the same, the order of
\* the ranked lists and of shared_expressions included.
C6_Deterministic ==
    [][ pc = "report" =>
            \A order \in Orders(AllExprStrings(all_expressions)) :
                output' = BuildOutput(all_priority_tags, module_paths,
                                      all_expressions, order)
      ]_vars

\* C7: when the extractor exits non-zero for a module, the extraction returns
\* three empty lists, the aggregate is left as it was, the run goes on to the
\* next module, and the report is emitted in the end, over all the modules.
C7_FailedModuleSkipped ==
    /\ [][ (pc = "merge" /\ result.rc # 0) =>
                /\ \A kd \in KindSet : expressions[kd] = << >>
                /\ all_expressions' = all_expressions
                /\ pc' = IF module_idx < Len(module_paths) THEN "extract" ELSE "report"
                /\ module_idx' = module_idx + 1
         ]_vars
    /\ [][ pc = "report" =>
                /\ pc' = "done"
                /\ output'.emitted
                /\ output'.summary.modules_processed = Len(module_paths)
         ]_vars
    /\ (pc = "merge" /\ result.rc # 0)
            ~> (pc = "report" /\ module_idx = Len(module_paths) + 1)

\* the first of two modules failed, with a symbol of a required tag already
\* printed, and the run is at the second module with nothing aggregated
C7_Witness ==
    /\ pc = "extract"
    /\ module_idx = 2
    /\ result.rc # 0
    /\ result.lines # << >>
    /\ Tag(1) \in all_priority_tags
    /\ \A kd \in KindSet : all_expressions[kd] = << >>

\* C8: a missing or malformed optional input (the required-tags list, the
\* tag metadata) never ends the run; only the module-list configuration does.
C8_OnlyConfigAborts ==
    pc = "aborted" => abort_site = "modules_config"

\* the tag names an extractor output offers: the keys of its hash symbols and
\* the Names of the items of its array symbols
NamesOffered(lines) ==
    UNION { LET sym == lines[n].json
                data == IF sym.k = "obj" /\ Has(sym, "data")
                        THEN Get(sym, "data") ELSE JNum
            IN  IF lines[n].k # "json" THEN {}
                ELSE IF data.k = "obj" THEN { data.v[i][1] : i \in DOMAIN data.v }
                ELSE IF data.k = "arr"
                THEN { Get(data.v[i], "Name").v :
                         i \in { j \in DOMAIN data.v :
                                    data.v[j].k = "obj" /\ Has(data.v[j], "Name") } }
                ELSE {}
          : n \in DOMAIN lines }

\* C9: every record the extraction returns, from hash and from array symbols,
\* has an expression with at least one of $ ( ? / " = in it, and belongs to a
\* tag whose normalized name is in the normalized required set.
C9_OnlyExpressionsOfRequiredTags ==
    pc = "merge" =>
        \A kd \in KindSet : \A i \in DOMAIN expressions[kd] :
            LET rec == expressions[kd][i] IN
            /\ \E j \in DOMAIN rec.expression :
                    rec.expression[j] \in {"$", "(", "?", "/", "\"", "="}
            /\ \E name \in NamesOffered(result.lines) :
                    /\ rec.tag = Stem(module_paths[module_idx]) \o << "." >> \o name
                    /\ \E t \in all_priority_tags :
                            normalize_tag_name(t) = normalize_tag_name(name)

\* the hash symbol was read with "a" required: its '$val' was collected and
\* its literal Condition 'Unknown' was not, nor anything of the tag "Q"
C9_Witness ==
    /\ pc = "merge"
    /\ result = ExtractorOutputs[2]
    /\ Tag(1) \in all_priority_tags
    /\ Len(expressions["ValueConv"]) = 1
    /\ Len(expressions["PrintConv"]) = 1
    /\ expressions["Condition"] = << >>

(***************************************************************************)
(* Properties of the classifier.                                           *)
(***************************************************************************)
\* the test of a category, as the description of the classifier states it
Passes(c, e) ==
    CASE c = "sprintf" -> Contains(KwSprintf, e)
      [] c = "unpack" -> Contains(KwUnpack, e)
      [] c = "pack" -> Contains(KwPack, e)
      [] c = "ternary" -> HasChar("?", e) /\ HasChar(":", e)
      [] c = "regex_match" ->
            Contains(OpBind, e) /\ HasChar("/", e) /\ ~Contains(OpSubst, e)
      [] c = "regex_substitute" ->
            Contains(OpBind, e) /\ HasChar("/", e) /\ Contains(OpSubst, e)
      [] c = "arithmetic" -> \E i \in DOMAIN e : e[i] \in {"+", "-", "*", "/", "%"}
      [] c = "string_concat" -> HasChar(".", e) /\ HasChar("\"", e)
      [] c = "function_calls" ->
            \E i \in DOMAIN e : \E j \in DOMAIN e :
                /\ i < j
                /\ e[i] \in WordChars
                /\ e[j] = "("
                /\ \A m \in (i + 1) .. (j - 1) : e[m] = " "
      [] c = "hash_lookups" -> HasChar("{", e)
      [] c = "complex" -> CountChar("(", e) > 3 \/ Len(e) > 100

\* C10: every category is tested on its own for each expression: an item is
\* placed in exactly the categories whose test its expression passes (one
\* with 'sprintf', an arithmetic operator and a word before '(' in sprintf,
\* arithmetic and function_calls at once), and never in both regex_match
\* and regex_substitute.
C10_Independent ==
    [][ (pc = "classify" /\ cls_idx <= Len(cls_items)) =>
            LET e == cls_items[cls_idx].expression
                t == cls_items[cls_idx].tag
                placed == { c \in CategorySet : patterns'[c] # patterns[c] }
            IN  /\ placed = { c \in CategorySet : Passes(c, e) }
                /\ \A c \in placed : patterns'[c] = Append(patterns[c], t)
                /\ ~({"regex_match", "regex_substitute"} \subseteq placed)
                /\ (Passes("sprintf", e) /\ Passes("arithmetic", e)
                        /\ Passes("function_calls", e)
                    => {"sprintf", "arithmetic", "function_calls"} \subseteq placed)
      ]_vars

\* sprintf("%d",$val+1) has been classified, into the three categories
C10_Witness ==
    /\ pc = "classify"
    /\ cls_idx = 2
    /\ cls_items[1].expression = ExprSprintf
    /\ patterns["sprintf"] # << >>
    /\ patterns["arithmetic"] # << >>
    /\ patterns["function_calls"] # << >>

=============================================================================
